---- MODULE Spec2Model ----
(***************************************************************************)
(* Model of the L-System engine of the "Splines from L-System" node        *)
(* (src/nodes/spline/splines_from_lsystem.py): the rule parser, the        *)
(* grammar evaluator LSystem_Eval and the recursive turtle interpreter     *)
(* LS_Turtle.convert.                                                      *)
(*                                                                         *)
(* Strings are sequences of one-character strings.                        *)
(* A real generation count is a whole number of 1/FracUnits units.         *)
(* A position is the sequence of the displacement vectors added to the     *)
(* initial position, an orientation is the sequence of the rotation        *)
(* factors multiplied onto the initial direction: equal sequences are      *)
(* equal vectors/quaternions whatever the numeric parameters are, and      *)
(* positions that differ by a drawn segment differ when segment_length     *)
(* is not 0 (its default is 1).                                            *)
(* Generation counts are non-negative and max_segments, max_segments_error *)
(* are at least 0, the minValue of their sockets.                          *)
(***************************************************************************)
EXTENDS Integers, Sequences, FiniteSets

\* ------------------------------------------------------------------ bounds
MaxLen == 4
MaxCap == 2
MaxCeiling == 2
FracUnits == 2
MaxGenUnits == 4
MaxAxiomLen == 2

VARIABLES
  pc,                         \* position in the node's execution code
  axiom, rules_list, num_generations_f,      \* inputs of generateLSystem
  ruleIdx, rules_dict, errorMessage,         \* makeRulesDictFromInputs
  num_generations_int, num_generations_remainder,
  i, outstring,                              \* LSystem_Eval's loop
  lsystem_string,
  max_segments, max_segments_error,          \* turtle parameters
  segment_count, rnd,                        \* turtle state
  stack,                                     \* activations of convert()
  point_pairs, splines, remainder_string     \* the node's outputs

vars == <<pc, axiom, rules_list, num_generations_f, ruleIdx, rules_dict,
          errorMessage, num_generations_int, num_generations_remainder, i,
          outstring, lsystem_string, max_segments, max_segments_error,
          segment_count, rnd, stack, point_pairs, splines, remainder_string>>

expandVars == <<axiom, rules_list, num_generations_f, ruleIdx, rules_dict,
                num_generations_int, i, outstring>>

turtleVars == <<max_segments, max_segments_error, segment_count, rnd, stack,
                point_pairs, splines, remainder_string>>

\* ----------------------------------------------------------------- strings
Strings(alphabet, n) == UNION {[1..k -> alphabet] : k \in 0..n}

Suffix(s, k) == SubSeq(s, k + 1, Len(s))

RECURSIVE CountIn(_, _)
CountIn(s, set) ==
  IF s = <<>> THEN 0
  ELSE (IF Head(s) \in set THEN 1 ELSE 0) + CountIn(Tail(s), set)

\* the drawing symbols: cur_sym in "FAB"
DrawSymbols == {"F", "A", "B"}

\* ------------------------------------- rules: makeRulesDictFromInputs
\* re.match("^(?P<key>[^=QP ]+)=(?P<rule>[^=QP]+)$", rule): the position of the "="
RuleMatch(rule) ==
  {e \in 2..(Len(rule) - 1) :
     /\ rule[e] = "="
     /\ \A k \in 1..(e - 1) : rule[k] \notin {"=", "Q", "P", " "}
     /\ \A k \in (e + 1)..Len(rule) : rule[k] \notin {"=", "Q", "P"}}

RuleKey(rule) == SubSeq(rule, 1, (CHOOSE e \in RuleMatch(rule) : TRUE) - 1)

RuleText(rule) == Suffix(rule, CHOOSE e \in RuleMatch(rule) : TRUE)

\* "Malformed Rule: '%s'" % (rule)
MalformedMessage(rule) == <<"Malformed Rule", rule>>

\* rules_dict[key] = text
DictSet(dict, key, text) ==
  [k \in (DOMAIN dict) \cup {key} |-> IF k = key THEN text ELSE dict[k]]

NextRule ==
  /\ ruleIdx' = ruleIdx + 1
  /\ pc' = IF ruleIdx = Len(rules_list) THEN "split" ELSE "parse"

\* if rule == "": continue
ParseEmpty ==
  /\ pc = "parse"
  /\ rules_list[ruleIdx] = <<>>
  /\ NextRule
  /\ UNCHANGED <<axiom, rules_list, num_generations_f, rules_dict, errorMessage,
                 num_generations_int, num_generations_remainder, i, outstring,
                 lsystem_string, turtleVars>>

\* m is None: self.errorMessage = "Malformed Rule: ..."
ParseMalformed ==
  /\ pc = "parse"
  /\ rules_list[ruleIdx] # <<>>
  /\ RuleMatch(rules_list[ruleIdx]) = {}
  /\ errorMessage' = MalformedMessage(rules_list[ruleIdx])
  /\ NextRule
  /\ UNCHANGED <<axiom, rules_list, num_generations_f, rules_dict,
                 num_generations_int, num_generations_remainder, i, outstring,
                 lsystem_string, turtleVars>>

\* rules_dict[m.group("key")] = m.group("rule")
ParseAccept ==
  /\ pc = "parse"
  /\ rules_list[ruleIdx] # <<>>
  /\ RuleMatch(rules_list[ruleIdx]) # {}
  /\ rules_dict' = DictSet(rules_dict, RuleKey(rules_list[ruleIdx]),
                           RuleText(rules_list[ruleIdx]))
  /\ NextRule
  /\ UNCHANGED <<axiom, rules_list, num_generations_f, errorMessage,
                 num_generations_int, num_generations_remainder, i, outstring,
                 lsystem_string, turtleVars>>

\* ------------------------------------------- generateLSystem, LSystem_Eval
\* math.modf(x): (fractional part, whole part), x in units of 1/FracUnits
Modf(x) == <<x % FracUnits, x \div FracUnits>>

ExtraPassAlways(remainder) == remainder >= 0

ExtraPass(remainder) == remainder > 0

SplitGenerations ==
  /\ pc = "split"
  /\ LET m == Modf(num_generations_f)
     IN /\ num_generations_remainder' = m[1]
        /\ num_generations_int' = m[2] + (IF ExtraPass(m[1]) THEN 1 ELSE 0)
  /\ outstring' = axiom
  /\ i' = 0
  /\ pc' = "eval"
  /\ UNCHANGED <<axiom, rules_list, num_generations_f, ruleIdx, rules_dict,
                 errorMessage, lsystem_string, turtleVars>>

\* re.sub(sym, repl, text, count=1)
RECURSIVE ReSubFirst(_, _, _)
ReSubFirst(sym, repl, text) ==
  IF text = <<>> THEN <<>>
  ELSE IF Head(text) = sym THEN <<repl>> \o Tail(text)
  ELSE <<Head(text)>> \o ReSubFirst(sym, repl, Tail(text))

\* re.sub("[...]", repl, text)
ReSubAll(class, repl, text) ==
  [k \in 1..Len(text) |-> IF text[k] \in class THEN repl ELSE text[k]]

MarkEveryF(insert_text) == ReSubAll({"F"}, "P", insert_text)

\* cur_sym not in "FAB": replace every occurrence
MarkEvery(insert_text) == ReSubAll(DrawSymbols, "P", insert_text)

MarkRetainNone(cur_sym, insert_text) ==
  ReSubFirst("Q", cur_sym,
             ReSubAll(DrawSymbols, "P", ReSubFirst("Q", cur_sym, insert_text)))

\* cur_sym in "FAB": retain one normal instance
MarkRetainOne(cur_sym, insert_text) ==
  ReSubFirst("Q", cur_sym,
             ReSubAll(DrawSymbols, "P", ReSubFirst(cur_sym, "Q", insert_text)))

IsLastPass(pass, n_int, n_rem) == pass + 1 = n_int

IsLastPartial(pass, n_int, n_rem) == pass + 1 = n_int /\ n_rem # 0

InsertText(cur_sym, rules, pass, n_int, n_rem) ==
  IF IsLastPartial(pass, n_int, n_rem)
  THEN IF cur_sym \notin DrawSymbols
       THEN MarkEvery(rules[<<cur_sym>>])
       ELSE MarkRetainOne(cur_sym, rules[<<cur_sym>>])
  ELSE rules[<<cur_sym>>]

RECURSIVE lsystem_iter(_, _, _, _, _)
lsystem_iter(ax, rules, pass, n_int, n_rem) ==
  IF ax = <<>> THEN <<>>
  ELSE (IF <<Head(ax)>> \in DOMAIN rules
        THEN InsertText(Head(ax), rules, pass, n_int, n_rem)
        ELSE <<Head(ax)>>)
       \o lsystem_iter(Tail(ax), rules, pass, n_int, n_rem)

PassesLeftInclusive(pass, n_int) == pass <= n_int

\* range(0, num_generations_int) has a value left for the loop variable
PassesLeft(pass, n_int) == pass < n_int

\* for i in range(0, num_generations_int): outstring = lsystem_iter(...)
RewritePass ==
  /\ pc = "eval"
  /\ PassesLeft(i, num_generations_int)
  /\ outstring' = lsystem_iter(outstring, rules_dict, i, num_generations_int,
                               num_generations_remainder)
  /\ i' = i + 1
  /\ UNCHANGED <<pc, axiom, rules_list, num_generations_f, ruleIdx, rules_dict,
                 errorMessage, num_generations_int, num_generations_remainder,
                 lsystem_string, turtleVars>>

\* return outstring, num_generations_remainder
ReturnLSystem ==
  /\ pc = "eval"
  /\ ~PassesLeft(i, num_generations_int)
  /\ lsystem_string' = outstring
  /\ pc' = "expanded"
  /\ UNCHANGED <<axiom, rules_list, num_generations_f, ruleIdx, rules_dict,
                 errorMessage, num_generations_int, num_generations_remainder,
                 i, outstring, turtleVars>>

AxiomAlphabet == {"F", "X", "P"}

\* the axioms of presetValues
PresetAxioms ==
  { <<"F">>, <<"A">>, <<"F", "F", "F", "a">>, <<"F", "F", "F", "A">> }

\* rule strings: well formed (among them rules of presetValues) and malformed
RuleChoices ==
  { <<>>,
    <<"F", "=", "F", "F">>,
    <<"B", "=", "A", "F">>,
    <<"X", "=", "F", "[", "+", "X", "]", "B">>,
    <<"F", "X", "=", "A">>,
    <<"F", "=", "X", " ", "F">>,
    <<"F">>,
    <<"F", "=", "A", "=", "B">>,
    <<"F", "=", "F", "Q">>,
    <<"F", "=", "F", "P">>,
    <<"P", "=", "F">>,
    <<"X", " ", "=", "F">>,
    <<"=", "F">>,
    <<"F", "=">> }

\* rule_1 .. rule_5 of presetValues
PresetRules ==
  { <<<<"F", "=", "F", "+", "F", "-", "F", "-", "F", "+", "F">>, <<>>, <<>>, <<>>, <<>>>>,
    <<<<"A", "=", "+", "B", "-", "A", "-", "B", "+">>,
      <<"B", "=", "-", "A", "+", "B", "+", "A", "-">>, <<>>, <<>>, <<>>>>,
    <<<<"A", "=", "F", "-", "[", "[", "A", "]", "+", "A", "]", "+", "F", "[", "+",
        "F", "A", "]", "-", "A">>,
      <<"F", "=", "F", "F">>, <<>>, <<>>, <<>>>>,
    <<<<"a", "=", "F", "[", "+", "F", "a", "]", "[", "-", "^", "F", "a", "]">>,
      <<>>, <<>>, <<>>, <<>>>> }

RuleLists ==
  PresetRules \cup {<<r1, <<>>, r3, <<>>, <<>>>> : r1 \in RuleChoices, r3 \in RuleChoices}

ExpandInit ==
  /\ pc = "parse"
  /\ axiom \in Strings(AxiomAlphabet, MaxAxiomLen) \cup PresetAxioms
  /\ rules_list \in RuleLists
  /\ num_generations_f \in 0..MaxGenUnits
  /\ ruleIdx = 1
  /\ rules_dict = <<>>
  /\ errorMessage = <<>>
  /\ num_generations_int = 0
  /\ num_generations_remainder = 0
  /\ i = 0
  /\ outstring = <<>>
  /\ lsystem_string = <<>>
  /\ max_segments = 0
  /\ max_segments_error = 0
  /\ segment_count = 0
  /\ rnd = 0
  /\ stack = <<>>
  /\ point_pairs = <<>>
  /\ splines = <<>>
  /\ remainder_string = <<>>

ExpandNext ==
  \/ ParseEmpty
  \/ ParseMalformed
  \/ ParseAccept
  \/ SplitGenerations
  \/ RewritePass
  \/ ReturnLSystem

SpecExpand == ExpandInit /\ [][ExpandNext]_vars

\* ------------------------------------------------ turtle: LS_Turtle.convert
MoveSymbols == {"f", "a", "b"}
RotationSymbols == {"+", "-", "/", "\\", "&", "^"}

\* Euler((x,y,z)) of the rotation commands: the axis and the sign of the angle
RotationAxis(sym) ==
  CASE sym \in {"+", "-"} -> "y"
    [] sym \in {"/", "\\"} -> "z"
    [] sym \in {"&", "^"} -> "x"

RotationSign(sym) == IF sym \in {"+", "/", "&"} THEN 1 ELSE -1

\* compute_rotation_angle(): the k-th value of the turtle's generator jitters it
RotationFactor(sym, k) ==
  [axis |-> RotationAxis(sym), sign |-> RotationSign(sym), jitter |-> k]

\* Vector((0,0,-compute_segment_length() * factor/FracUnits)) rotated by dir
Delta(factor, k, dir) == [factor |-> factor, jitter |-> k, dir |-> dir]

initial_position == <<>>
initial_direction == <<>>

Frame(l_string, pos, dir) ==
  [l_string |-> l_string, pos |-> pos, dir |-> dir, old_dir |-> dir,
   geometry |-> <<>>, spline_list |-> <<>>]

PolySpline(points) == [points |-> points]

Top == stack[Len(stack)]

SetTop(f) == [stack EXCEPT ![Len(stack)] = f]

LoopCondInclusive ==
  /\ Len(Top.l_string) # 0
  /\ (max_segments = 0 \/ segment_count <= max_segments)

\* the while condition of convert()
LoopCond ==
  /\ Len(Top.l_string) # 0
  /\ (max_segments = 0 \/ segment_count < max_segments)

ExceedsCeilingLate == segment_count > max_segments_error + 1

ExceedsCeiling == segment_count > max_segments_error

\* one loop iteration is entered and the first symbol is taken off the string
Takes(symbols) ==
  /\ pc = "convert"
  /\ LoopCond
  /\ ~ExceedsCeiling
  /\ Head(Top.l_string) \in symbols

\* turtle = self.createTurtle(random_seed) ... turtle.convert(lsystem_string, ...)
StartConvert ==
  /\ pc = "turtle"
  /\ segment_count' = 0
  /\ rnd' = 0
  /\ stack' = <<Frame(lsystem_string, initial_position, initial_direction)>>
  /\ pc' = "convert"
  /\ UNCHANGED <<expandVars, errorMessage, num_generations_remainder,
                 lsystem_string, max_segments, max_segments_error,
                 point_pairs, splines, remainder_string>>

\* raise Exception("max_segments_error limit reached"), caught by the node
RaiseRunaway ==
  /\ pc = "convert"
  /\ LoopCond
  /\ ExceedsCeiling
  /\ errorMessage' = <<"max_segments_error limit reached", max_segments_error>>
  /\ stack' = <<>>
  /\ pc' = "error"
  /\ UNCHANGED <<expandVars, num_generations_remainder, lsystem_string,
                 max_segments, max_segments_error, segment_count, rnd,
                 point_pairs, splines, remainder_string>>

DrawStep(factor) ==
  LET f == Top
      delta == Delta(factor, rnd, f.dir)
      end == Append(f.pos, delta)
  IN /\ segment_count' = segment_count + 1
     /\ rnd' = rnd + 1
     /\ stack' = SetTop([f EXCEPT !.l_string = Tail(f.l_string),
                                  !.geometry = Append(@, <<f.pos, end>>),
                                  !.spline_list = Append(@, PolySpline(<<f.pos, end>>)),
                                  !.pos = end])
     /\ UNCHANGED <<pc, expandVars, errorMessage, num_generations_remainder,
                    lsystem_string, max_segments, max_segments_error,
                    point_pairs, splines, remainder_string>>

\* cur_sym == "P": the partial last generation
DrawPartial == Takes({"P"}) /\ DrawStep(num_generations_remainder)

\* cur_sym in "FAB"
DrawForward == Takes(DrawSymbols) /\ DrawStep(FracUnits)

\* cur_sym in "fab"
MoveForward ==
  /\ Takes(MoveSymbols)
  /\ LET f == Top
     IN stack' = SetTop([f EXCEPT !.l_string = Tail(f.l_string),
                                  !.pos = Append(@, Delta(FracUnits, rnd, f.dir))])
  /\ rnd' = rnd + 1
  /\ UNCHANGED <<pc, expandVars, errorMessage, num_generations_remainder,
                 lsystem_string, max_segments, max_segments_error,
                 segment_count, point_pairs, splines, remainder_string>>

\* + - / \ & ^ : dir = dir * Euler(...).to_quaternion()
Rotate ==
  /\ Takes(RotationSymbols)
  /\ LET f == Top
     IN stack' = SetTop([f EXCEPT !.l_string = Tail(f.l_string),
                                  !.dir = Append(@, RotationFactor(Head(f.l_string), rnd))])
  /\ rnd' = rnd + 1
  /\ UNCHANGED <<pc, expandVars, errorMessage, num_generations_remainder,
                 lsystem_string, max_segments, max_segments_error,
                 segment_count, point_pairs, splines, remainder_string>>

\* any other symbol falls through the elif chain
NoOperation ==
  /\ pc = "convert"
  /\ LoopCond
  /\ ~ExceedsCeiling
  /\ Head(Top.l_string) \notin
       {"P", "[", "]"} \cup DrawSymbols \cup MoveSymbols \cup RotationSymbols
  /\ stack' = SetTop([Top EXCEPT !.l_string = Tail(@)])
  /\ UNCHANGED <<pc, expandVars, errorMessage, num_generations_remainder,
                 lsystem_string, max_segments, max_segments_error,
                 segment_count, rnd, point_pairs, splines, remainder_string>>

\* '[': old_dir = dir.copy(); self.convert(l_string, pos, dir)
Push ==
  /\ Takes({"["})
  /\ LET f == Top
         rest == Tail(f.l_string)
     IN stack' = Append(SetTop([f EXCEPT !.l_string = rest, !.old_dir = f.dir]),
                        Frame(rest, f.pos, f.dir))
  /\ UNCHANGED <<pc, expandVars, errorMessage, num_generations_remainder,
                 lsystem_string, max_segments, max_segments_error,
                 segment_count, rnd, point_pairs, splines, remainder_string>>

\* the caller's statements after the recursive call returned (geom, sp_list, remainder)
ResumeDirCallee(caller, callee_dir) == callee_dir

ResumeDir(caller, callee_dir) == caller.old_dir

ResumePosCallee(caller, callee_pos) == callee_pos

ResumePos(caller, callee_pos) == caller.pos

ResumePrepend(caller, callee, remainder) ==
  [caller EXCEPT !.geometry = callee.geometry \o @,
                 !.spline_list = callee.spline_list \o @,
                 !.l_string = remainder,
                 !.pos = ResumePos(caller, callee.pos),
                 !.dir = ResumeDir(caller, callee.dir)]

Resume(caller, callee, remainder) ==
  [caller EXCEPT !.geometry = @ \o callee.geometry,
                 !.spline_list = @ \o callee.spline_list,
                 !.l_string = remainder,
                 !.pos = ResumePos(caller, callee.pos),
                 !.dir = ResumeDir(caller, callee.dir)]

\* return (geometry, spline_list, l_string) with l_string = remainder
Return(remainder) ==
  LET f == Top
      n == Len(stack)
  IN IF n = 1
     THEN /\ point_pairs' = f.geometry
          /\ splines' = f.spline_list
          /\ remainder_string' = remainder
          /\ stack' = <<>>
          /\ pc' = "done"
     ELSE /\ stack' = Append(SubSeq(stack, 1, n - 2),
                             Resume(stack[n - 1], f, remainder))
          /\ UNCHANGED <<pc, point_pairs, splines, remainder_string>>

\* ']': return from the current activation
Pop ==
  /\ Takes({"]"})
  /\ Return(Tail(Top.l_string))
  /\ UNCHANGED <<expandVars, errorMessage, num_generations_remainder,
                 lsystem_string, max_segments, max_segments_error,
                 segment_count, rnd>>

\* the while loop ends: the string is exhausted or max_segments is reached
LoopExit ==
  /\ pc = "convert"
  /\ ~LoopCond
  /\ Return(Top.l_string)
  /\ UNCHANGED <<expandVars, errorMessage, num_generations_remainder,
                 lsystem_string, max_segments, max_segments_error,
                 segment_count, rnd>>

TurtleAlphabet == {"F", "P", "f", "+", "[", "]", "X"}

TurtleExamples ==
  { <<"F", "[", "+", "F", "]", "F">>,
    <<"F", "[", "-", "A", "[", "&", "B", "]", "^", "P", "]", "X", "F">>,
    <<"F", "F", "F", "a", "[", "/", "F", "]", "\\", "b">>,
    <<"[", "+", "[", "-", "]", "F", "]", "F">> }

TurtleInit ==
  /\ pc = "turtle"
  /\ lsystem_string \in Strings(TurtleAlphabet, MaxLen) \cup TurtleExamples
  /\ num_generations_remainder \in 0..(FracUnits - 1)
  /\ max_segments \in 0..MaxCap
  /\ max_segments_error \in 0..MaxCeiling
  /\ axiom = lsystem_string
  /\ rules_list = <<>>
  /\ num_generations_f = num_generations_remainder
  /\ ruleIdx = 0
  /\ rules_dict = <<>>
  /\ errorMessage = <<>>
  /\ num_generations_int = 0
  /\ i = 0
  /\ outstring = lsystem_string
  /\ segment_count = 0
  /\ rnd = 0
  /\ stack = <<>>
  /\ point_pairs = <<>>
  /\ splines = <<>>
  /\ remainder_string = <<>>

TurtleNext ==
  \/ StartConvert
  \/ RaiseRunaway
  \/ DrawPartial
  \/ DrawForward
  \/ MoveForward
  \/ Rotate
  \/ NoOperation
  \/ Push
  \/ Pop
  \/ LoopExit

SpecTurtle == TurtleInit /\ [][TurtleNext]_vars

\* ------------------------------------------------------- turtle properties
AllDrawSymbols == DrawSymbols \cup {"P"}

\* the segments an interpretation without limits draws: the drawing symbols
\* up to the first "]" that closes no "["
RECURSIVE DrawnBy(_, _)
DrawnBy(s, depth) ==
  IF s = <<>> THEN 0
  ELSE IF Head(s) = "]"
       THEN (IF depth = 0 THEN 0 ELSE DrawnBy(Tail(s), depth - 1))
  ELSE IF Head(s) = "[" THEN DrawnBy(Tail(s), depth + 1)
  ELSE (IF Head(s) \in AllDrawSymbols THEN 1 ELSE 0) + DrawnBy(Tail(s), depth)

Finished == pc \in {"done", "error"}

RunawayMessage == <<"max_segments_error limit reached", max_segments_error>>

\* C1: with max_segments = 0, an interpretation that would draw more than
\* max_segments_error segments fails with the runaway error and the node's
\* outputs stay empty; no successful conversion returns more than
\* max_segments_error segments.
C1_CeilingExact ==
  max_segments = 0 =>
    /\ (Finished /\ DrawnBy(lsystem_string, 0) > max_segments_error => pc = "error")
    /\ (pc = "error" => point_pairs = <<>> /\ splines = <<>>)
    /\ (pc = "done" => Len(point_pairs) <= max_segments_error)

\* The ceiling convert() enforces: the test precedes the increment, so with
\* max_segments = 0 an interpretation that would draw more than
\* max_segments_error + 1 segments fails, the node's outputs then stay empty
\* beside the error message, and a successful conversion returns at most
\* max_segments_error + 1 segments.
CeilingPlusOne ==
  max_segments = 0 =>
    /\ (Finished /\ DrawnBy(lsystem_string, 0) > max_segments_error + 1
          => pc = "error")
    /\ (pc = "error" =>
          point_pairs = <<>> /\ splines = <<>> /\ errorMessage = RunawayMessage)
    /\ (pc = "done" =>
          /\ Len(point_pairs) <= max_segments_error + 1
          /\ Len(splines) <= max_segments_error + 1)

RunawayRaised ==
  /\ pc = "error"
  /\ max_segments = 0
  /\ segment_count = max_segments_error + 1
  /\ DrawnBy(lsystem_string, 0) > max_segments_error + 1

BranchExample == <<"F", "[", "+", "F", "]", "F">>

BranchExampleDrawn ==
  pc = "done" /\ lsystem_string = BranchExample /\ Len(point_pairs) = 3

\* the frames of the enclosing levels, and of the caller at a "[", keep field
\* fld through the step
EnclosingKeeps(fld(_)) ==
  /\ \A k \in 1..(Len(stack) - 1) :
       k <= Len(stack') => fld(stack'[k]) = fld(stack[k])
  /\ (Len(stack) > 0 /\ Len(stack') > Len(stack)) =>
       /\ fld(stack'[Len(stack)]) = fld(stack[Len(stack)])
       /\ fld(stack'[Len(stack')]) = fld(stack[Len(stack)])

PosOf(f) == f.pos

DirOf(f) == f.dir

\* C2 (as stated): in "F[+F]F" the third segment starts where the second
\* (in-branch) segment ended: the position after "]" is the branch's end.
C2_ContinuesFromBranchEnd ==
  BranchExampleDrawn => point_pairs[3][1] = point_pairs[2][2]

\* C2 (amended): the position used for the symbols that follow a "]" is the
\* position the turtle had at the matching "[": the branch starts there, and
\* nothing a branch does changes the position of an enclosing level; in
\* "F[+F]F" the third segment starts where the first segment ended, not
\* where the second ended.
C2_ContinuesFromBranchStart ==
  /\ [](BranchExampleDrawn =>
          /\ point_pairs[3][1] = point_pairs[1][2]
          /\ point_pairs[2][1] = point_pairs[1][2]
          /\ point_pairs[3][1] # point_pairs[2][2])
  /\ [][EnclosingKeeps(PosOf)]_vars

C2_Witness ==
  /\ BranchExampleDrawn
  /\ remainder_string = <<>>
  /\ Len(point_pairs[2][2]) = 2

\* C3: the orientation in effect after a "]" is the one in effect before the
\* matching "[": the branch starts with it, and no rotation made inside a
\* branch, at any nesting depth, changes the orientation of an enclosing level.
C3_OrientationPreserved == [][EnclosingKeeps(DirOf)]_vars

\* back at the top level after a branch that rotated, with symbols left
C3_Witness ==
  /\ pc = "convert"
  /\ Len(stack) = 1
  /\ lsystem_string \in {BranchExample, <<"[", "+", "[", "-", "]", "F", "]", "F">>}
  /\ Top.l_string = <<"F">>
  /\ Top.dir = initial_direction

Consumed == Len(lsystem_string) - Len(remainder_string)

CapReached == max_segments # 0 /\ segment_count >= max_segments

\* C10: with max_segments # 0 the counter never passes max_segments; once it
\* is reached no level processes another symbol or raises, every level hands
\* its unprocessed string back, and the successful result holds at most
\* max_segments segments (one per drawing symbol processed, nested ones
\* included) with the unprocessed symbols as the remainder.
C10_CapStops ==
  /\ [](max_segments # 0 =>
          /\ segment_count <= max_segments
          /\ (pc = "error" => segment_count < max_segments)
          /\ (pc = "done" =>
                /\ Len(point_pairs) <= max_segments
                /\ Len(splines) = Len(point_pairs)
                /\ Len(point_pairs) = segment_count
                /\ remainder_string = Suffix(lsystem_string, Consumed)
                /\ Len(point_pairs) =
                     CountIn(SubSeq(lsystem_string, 1, Consumed), AllDrawSymbols)))
  /\ [][(pc = "convert" /\ CapReached) =>
          /\ pc' # "error"
          /\ segment_count' = segment_count
          /\ (pc' = "done" => remainder_string' = Top.l_string)
          /\ (pc' = "convert" =>
                /\ Len(stack') = Len(stack) - 1
                /\ stack'[Len(stack')].l_string = Top.l_string)]_vars

\* the cap is reached inside a bracket with symbols left over
C10_Witness ==
  /\ pc = "done"
  /\ max_segments # 0
  /\ Len(point_pairs) = max_segments
  /\ lsystem_string[1] = "["
  /\ remainder_string # <<>>
  /\ errorMessage = <<>>

\* ---------------------------------------------------- expansion properties
HasRule(c) == <<c>> \in DOMAIN rules_dict

\* the length of the text that replaces s in one pass
RECURSIVE SumLen(_)
SumLen(s) ==
  IF s = <<>> THEN 0
  ELSE SumLen(SubSeq(s, 1, Len(s) - 1))
       + (IF HasRule(s[Len(s)]) THEN Len(rules_dict[<<s[Len(s)]>>]) ELSE 1)

\* s with every character that has a rule replaced by the rule's text
RECURSIVE Substitute(_)
Substitute(s) ==
  IF s = <<>> THEN <<>>
  ELSE Substitute(SubSeq(s, 1, Len(s) - 1))
       \o (IF HasRule(s[Len(s)]) THEN rules_dict[<<s[Len(s)]>>] ELSE <<s[Len(s)]>>)

RECURSIVE SubstituteN(_, _)
SubstituteN(s, n) == IF n = 0 THEN s ELSE Substitute(SubstituteN(s, n - 1))

\* the number of passes and the fraction asked for by num_generations_f
PassesFor(x) == (x \div FracUnits) + (IF x % FracUnits > 0 THEN 1 ELSE 0)

FractionOf(x) == x % FracUnits

\* the step is a pass of LSystem_Eval, the last pass of a fractional count
PassStep == pc = "eval" /\ i' = i + 1

FinalPartialStep ==
  PassStep /\ i + 1 = PassesFor(num_generations_f) /\ FractionOf(num_generations_f) # 0

\* the text the pass put in place of the k-th character of outstring
Piece(k) ==
  LET before == SumLen(SubSeq(outstring, 1, k - 1))
  IN SubSeq(outstring', before + 1, before + SumLen(<<outstring[k]>>))

FirstAt(c, text) ==
  IF \E j \in 1..Len(text) : text[j] = c
  THEN CHOOSE j \in 1..Len(text) :
         text[j] = c /\ \A m \in 1..(j - 1) : text[m] # c
  ELSE 0

\* text with its drawing letters turned into P, but for the one at position keep
Marked(text, keep) ==
  [j \in 1..Len(text) |->
     IF text[j] \in DrawSymbols /\ j # keep THEN "P" ELSE text[j]]

FractionalCount(x) == 0 < x /\ x < FracUnits    \* one pass, and it is partial

RuleIs(key, text) == HasRule(key) /\ rules_dict[<<key>>] = text

\* C4: in the final pass of a fractional count, the text inserted for a
\* drawing trigger (F, A or B) is the rule's text with the first occurrence of
\* the trigger's letter kept and every other F/A/B turned into P, at the same
\* length; axiom "F", rule F=FF, count 1.5 gives "FPFP": one F and one P for
\* each replacement of the final pass.
C4_DrawingTriggerKeepsFirst ==
  /\ [][FinalPartialStep =>
          \A k \in 1..Len(outstring) :
            (outstring[k] \in DrawSymbols /\ HasRule(outstring[k])) =>
              LET text == rules_dict[<<outstring[k]>>]
              IN /\ Piece(k) = Marked(text, FirstAt(outstring[k], text))
                 /\ Len(Piece(k)) = Len(text)]_vars
  /\ []((/\ pc = "expanded"
         /\ axiom = <<"F">>
         /\ DOMAIN rules_dict = {<<"F">>}
         /\ RuleIs("F", <<"F", "F">>)
         /\ 2 * num_generations_f = 3 * FracUnits)
        => lsystem_string = <<"F", "P", "F", "P">>)

C4_Witness ==
  /\ pc = "expanded"
  /\ axiom = <<"F">>
  /\ RuleIs("F", <<"F", "F">>)
  /\ i = 2
  /\ num_generations_remainder # 0
  /\ lsystem_string = <<"F", "P", "F", "P">>

FractalPlant ==
  <<"F", "-", "[", "[", "A", "]", "+", "A", "]", "+", "F", "[", "+", "F", "A", "]",
    "-", "A">>

NonDrawingTriggerAllP ==
  FinalPartialStep =>
    \A k \in 1..Len(outstring) :
      (outstring[k] \notin DrawSymbols /\ HasRule(outstring[k])) =>
        /\ Piece(k) = Marked(rules_dict[<<outstring[k]>>], 0)
        /\ CountIn(Piece(k), DrawSymbols) = 0

FractalPlantLastPass ==
  /\ pc = "expanded"
  /\ axiom = <<"A">>
  /\ RuleIs("A", FractalPlant)
  /\ FractionalCount(num_generations_f)

\* C5 (as stated): in the final pass of a fractional count the text inserted
\* for a trigger that is no drawing symbol has every F, A and B turned into P;
\* so it is for rule A=F-[[A]+A]+F[+FA]-A: every F becomes P and no drawing
\* letter is preserved.
C5_PlantRuleAllP ==
  /\ [][NonDrawingTriggerAllP]_vars
  /\ [](FractalPlantLastPass =>
          /\ CountIn(lsystem_string, {"F"}) = 0
          /\ CountIn(lsystem_string, DrawSymbols) = 0)

\* C5 (amended): in the final pass of a fractional count the text inserted
\* for a trigger that is no drawing symbol has every F, A and B turned into P;
\* the trigger A of rule A=F-[[A]+A]+F[+FA]-A is a drawing symbol, so there
\* every F and every A but the first becomes P and the first A is preserved.
C5_NonDrawingTriggerAllP ==
  /\ [][NonDrawingTriggerAllP]_vars
  /\ [](FractalPlantLastPass =>
          /\ CountIn(lsystem_string, {"F"}) = 0
          /\ lsystem_string = Marked(FractalPlant, 5))

C5_Witness ==
  /\ pc = "expanded"
  /\ num_generations_remainder # 0
  /\ i = 1
  /\ axiom = <<"X">>
  /\ RuleIs("X", <<"F", "[", "+", "X", "]", "B">>)
  /\ lsystem_string = <<"P", "[", "+", "X", "]", "P">>

NoP(s) == \A k \in 1..Len(s) : s[k] # "P"

\* C6: with an integer generation count and an axiom without P, no pass
\* leaves a P in the string, whatever rules the parser accepted; a P appears
\* only after the last pass of a count with a fraction.
C6_NoPWithoutFraction ==
  NoP(axiom) =>
    /\ (FractionOf(num_generations_f) = 0 => NoP(outstring) /\ NoP(lsystem_string))
    /\ (~NoP(outstring) =>
          /\ FractionOf(num_generations_f) # 0
          /\ pc \in {"eval", "expanded"}
          /\ i = PassesFor(num_generations_f))
    /\ \A key \in DOMAIN rules_dict : NoP(key) /\ NoP(rules_dict[key])

\* two passes of an integer count rewrote drawing symbols
C6_Witness ==
  /\ pc = "expanded"
  /\ FractionOf(num_generations_f) = 0
  /\ i = 2
  /\ NoP(axiom)
  /\ Len(lsystem_string) > Len(axiom)
  /\ CountIn(lsystem_string, DrawSymbols) > 1

KochRule == <<"F", "+", "F", "-", "F", "-", "F", "+", "F">>

\* C7: generateLSystem makes exactly G passes, G the whole part of the count
\* plus one when its fraction is positive, and returns the fraction; a pass
\* replaces every character that has a rule by the rule's text (its drawing
\* letters marked P in the last pass of a fractional count) and keeps every
\* other character, the length after the pass being the sum of the
\* replacement lengths; for an integer count the result is the G-fold
\* substitution, and expand("F", {F: "F+F-F-F+F"}, 1) = ("F+F-F-F+F", 0).
C7_PassesAndSubstitution ==
  /\ [](pc \in {"eval", "expanded"} =>
          /\ i <= PassesFor(num_generations_f)
          /\ num_generations_remainder = FractionOf(num_generations_f)
          /\ (FractionOf(num_generations_f) = 0 => outstring = SubstituteN(axiom, i)))
  /\ [](pc = "expanded" =>
          /\ i = PassesFor(num_generations_f)
          /\ lsystem_string = outstring
          /\ ((/\ axiom = <<"F">>
               /\ RuleIs("F", KochRule)
               /\ num_generations_f = FracUnits)
              => lsystem_string = KochRule /\ num_generations_remainder = 0))
  /\ [][PassStep =>
          /\ Len(outstring') = SumLen(outstring)
          /\ (~FinalPartialStep => outstring' = Substitute(outstring))
          /\ \A j \in 1..Len(outstring') :
               \/ outstring'[j] = Substitute(outstring)[j]
               \/ outstring'[j] = "P" /\ Substitute(outstring)[j] \in DrawSymbols]_vars

C7_Witness ==
  /\ pc = "expanded"
  /\ axiom = <<"F">>
  /\ num_generations_f = FracUnits
  /\ i = 1
  /\ lsystem_string = KochRule
  /\ num_generations_remainder = 0

Malformed(rule) == rule # <<>> /\ RuleMatch(rule) = {}

WellFormed(rule) == rule # <<>> /\ RuleMatch(rule) # {}

\* C8: with generation count 0 no pass is made and the axiom is returned
\* unchanged with fraction 0, whatever the rule strings are, malformed ones
\* included.
C8_ZeroGenerationsNoOp ==
  num_generations_f = 0 =>
    /\ i = 0
    /\ (pc = "eval" => outstring = axiom)
    /\ (pc = "expanded" =>
          /\ lsystem_string = axiom
          /\ num_generations_remainder = 0
          /\ num_generations_int = 0)

\* count 0 with a malformed rule and an accepted rule for a symbol of the axiom
C8_Witness ==
  /\ pc = "expanded"
  /\ num_generations_f = 0
  /\ \E k \in 1..Len(rules_list) : Malformed(rules_list[k])
  /\ \E k \in 1..Len(axiom) : HasRule(axiom[k])
  /\ lsystem_string = axiom

\* C9: after the parse every well-formed rule is in the rule set, no malformed
\* rule is, and the message of every malformed (skipped) rule is surfaced to
\* the caller. errorMessage is the node's only diagnostic channel.
C9_AllSkippedRulesReported ==
  pc \in {"split", "eval", "expanded"} =>
    \A k \in 1..Len(rules_list) :
      /\ WellFormed(rules_list[k]) => RuleKey(rules_list[k]) \in DOMAIN rules_dict
      /\ Malformed(rules_list[k]) => errorMessage = MalformedMessage(rules_list[k])

\* ------------------------------------------- emission order and the counter
\* every "]" closes a "[" and every "[" is closed
RECURSIVE BalancedFrom(_, _)
BalancedFrom(s, depth) ==
  IF s = <<>> THEN depth = 0
  ELSE IF Head(s) = "[" THEN BalancedFrom(Tail(s), depth + 1)
  ELSE IF Head(s) = "]" THEN depth > 0 /\ BalancedFrom(Tail(s), depth - 1)
  ELSE BalancedFrom(Tail(s), depth)

\* the places of the drawing symbols of s, left to right
RECURSIVE DrawAt(_)
DrawAt(s) ==
  IF s = <<>> THEN <<>>
  ELSE LET front == DrawAt(SubSeq(s, 1, Len(s) - 1))
       IN IF s[Len(s)] \in AllDrawSymbols THEN Append(front, Len(s)) ELSE front

\* the symbols whose processing takes a value from the turtle's generator
RandomUsers == AllDrawSymbols \cup MoveSymbols \cup RotationSymbols

\* segment seg was drawn for the symbol at place p of the string
DrawnFor(seg, p) ==
  LET step == seg[2][Len(seg[2])]
  IN /\ Len(seg[2]) = Len(seg[1]) + 1
     /\ SubSeq(seg[2], 1, Len(seg[1])) = seg[1]
     /\ step.jitter = CountIn(SubSeq(lsystem_string, 1, p - 1), RandomUsers)
     /\ step.factor = (IF lsystem_string[p] = "P"
                       THEN num_generations_remainder ELSE FracUnits)

BalancedDone ==
  pc = "done" /\ max_segments = 0 /\ BalancedFrom(lsystem_string, 0)

\* C11: a bracket-balanced string interpreted with max_segments = 0 and no
\* runaway error returns an empty remainder and exactly one segment and one
\* spline for each drawing symbol (F, A, B, P), in the left-to-right order of
\* those symbols; "F[+F]F" gives 3 segments and an empty remainder, "F" gives
\* one segment that starts at the start position.
C11_OneSegmentPerDrawSymbolInOrder ==
  BalancedDone =>
    /\ remainder_string = <<>>
    /\ Len(point_pairs) = CountIn(lsystem_string, AllDrawSymbols)
    /\ Len(splines) = Len(point_pairs)
    /\ \A k \in 1..Len(point_pairs) :
         /\ DrawnFor(point_pairs[k], DrawAt(lsystem_string)[k])
         /\ splines[k] = PolySpline(point_pairs[k])
    /\ (lsystem_string = BranchExample => Len(point_pairs) = 3)
    /\ (lsystem_string = <<"F">> =>
          Len(point_pairs) = 1 /\ point_pairs[1][1] = initial_position)

\* a balanced string with segments drawn inside and outside a bracket
C11_Witness ==
  /\ BalancedDone
  /\ remainder_string = <<>>
  /\ \E k \in 2..Len(lsystem_string) :
       /\ lsystem_string[k] \in AllDrawSymbols
       /\ "[" \in {lsystem_string[j] : j \in 1..(k - 1)}
       /\ "]" \notin {lsystem_string[j] : j \in 1..(k - 1)}
  /\ lsystem_string[Len(lsystem_string)] \in AllDrawSymbols
  /\ Len(point_pairs) >= 2

RECURSIVE EmittedIn(_)
EmittedIn(frames) ==
  IF frames = <<>> THEN 0
  ELSE Len(Head(frames).geometry) + EmittedIn(Tail(frames))

\* C12: on a fresh turtle the shared counter equals the number of segments
\* emitted so far over all recursion levels (and of splines, and the length
\* of the result), it never exceeds max_segments_error + 1 when
\* max_segments = 0, and when 0 < max_segments <= max_segments_error + 1 it
\* never exceeds max_segments and the runaway error is never raised.
C12_CounterCountsEmitted ==
  /\ (pc = "convert" => segment_count = EmittedIn(stack))
  /\ (pc = "convert" =>
        \A k \in 1..Len(stack) :
          Len(stack[k].spline_list) = Len(stack[k].geometry))
  /\ (pc = "done" => segment_count = Len(point_pairs))
  /\ (max_segments = 0 => segment_count <= max_segments_error + 1)
  /\ ((0 < max_segments /\ max_segments <= max_segments_error + 1) =>
        /\ segment_count <= max_segments
        /\ pc # "error")

\* two levels deep with segments on both levels, the counter at its maximum
C12_Witness ==
  /\ pc = "convert"
  /\ max_segments = 0
  /\ Len(stack) >= 2
  /\ Len(stack[1].geometry) > 0
  /\ Len(Top.geometry) > 0
  /\ segment_count = max_segments_error + 1

====
